---- MODULE Spec2Model ----
(***************************************************************************)
(* Value object expansion (src/src/expansion/value.rs, expand_value).      *)
(* The function is modelled by operators that follow the source step by    *)
(* step; the specification draws the arguments of a call from bounded sets *)
(* and applies the function to them.                                       *)
(***************************************************************************)
EXTENDS Integers, Sequences, FiniteSets, TLC

\* Largest number of entries in expanded_entries.
MaxEntries == 3

---------------------------------------------------------------------------
\* Option<T>
None == [some |-> FALSE]
Some(x) == [some |-> TRUE, val |-> x]

\* JsonValue (json crate): the shapes the function distinguishes.
JNull == [t |-> "null"]
JStr(s) == [t |-> "string", s |-> s]
JNum(n) == [t |-> "number", n |-> n]
JBool(b) == [t |-> "boolean", b |-> b]
JArr(a) == [t |-> "array", a |-> a]
JObj(o) == [t |-> "object", o |-> o]

\* JsonValue::as_str: Some(text) for Short/String, None for every other shape.
as_str(v) == IF v.t = "string" THEN Some(v.s) ELSE None

\* crate::util::as_array: the elements of an array, any other value as a
\* one-element slice.
as_array(v) == IF v.t = "array" THEN v.a ELSE <<v>>

\* Term<T> / Lenient<Term<T>>
Keyword(k) == [term |-> "Keyword", k |-> k]
RefId(i) == [term |-> "Ref", ref |-> "Id", id |-> i]
RefBlank(b) == [term |-> "Ref", ref |-> "Blank", id |-> b]
LenientOk(t) == [lenient |-> "Ok", term |-> t]
LenientUnknown(s) == [lenient |-> "Unknown", raw |-> s]

\* Literal
LitNull == [lit |-> "Null"]
LitString(s) == [lit |-> "String", s |-> s]
LitNumber(n) == [lit |-> "Number", n |-> n]
LitBoolean(b) == [lit |-> "Boolean", b |-> b]
LitJson(j) == [lit |-> "Json", j |-> j]

\* Result<Option<Indexed<Object<T>>>, Error>
Ok(v) == [ok |-> TRUE, val |-> v]
Err(code) == [ok |-> FALSE, err |-> code]

\* Indexed::new(Object::Value(v), index)
Indexed(v, index) == [object |-> v, index |-> index]
\* Value::LangString(LangString::new(str, language, direction))
ValueLangString(str, language, direction) ==
    [value |-> "LangString", str |-> str, language |-> language, direction |-> direction]
\* Value::Literal(result, types)
ValueLiteral(result, types) == [value |-> "Literal", lit |-> result, types |-> types]

\* Direction::try_from(&str)
DirectionTryFrom(s) ==
    IF s = "ltr" THEN Ok("Ltr") ELSE IF s = "rtl" THEN Ok("Rtl") ELSE Err("InvalidDirection")

\* expand_iri(type_scoped_context, ty, true, true) in the context the calls
\* are made with: it has a vocabulary mapping and no term definitions, so a
\* keyword resolves to itself, a blank node identifier to a blank node
\* reference, a word to an IRI reference, and anything else is not resolved.
Contexts == {"vocab"}
expand_iri(ctx, ty) ==
    CASE ty = "@json" -> LenientOk(Keyword("@json"))
      [] ty = "@id" -> LenientOk(Keyword("@id"))
      [] ty = "_:b" -> LenientOk(RefBlank("_:b"))
      [] ty = "Int" -> LenientOk(RefId("http://ex/Int"))
      [] ty = "Str" -> LenientOk(RefId("http://ex/Str"))
      [] OTHER -> LenientUnknown(ty)

---------------------------------------------------------------------------
\* Seed with the input type never consulted.
Seed_noHint(input_type, value_entry) ==
    CASE value_entry.t = "null" -> Ok(LitNull)
      [] value_entry.t = "string" -> Ok(LitString(value_entry.s))
      [] value_entry.t = "number" -> Ok(LitNumber(value_entry.n))
      [] value_entry.t = "boolean" -> Ok(LitBoolean(value_entry.b))
      [] OTHER -> Err("InvalidValueObjectValue")

\* Step 1 (lines 30-50): the working literal, or InvalidValueObjectValue.
Seed(input_type, value_entry) ==
    IF input_type = Some(LenientOk(Keyword("@json")))
    THEN Ok(LitJson(value_entry))
    ELSE CASE value_entry.t = "null" -> Ok(LitNull)
           [] value_entry.t = "string" -> Ok(LitString(value_entry.s))
           [] value_entry.t = "number" -> Ok(LitNumber(value_entry.n))
           [] value_entry.t = "boolean" -> Ok(LitBoolean(value_entry.b))
           [] OTHER -> Err("InvalidValueObjectValue")

\* The accumulators of the loop (lines 52-55) with the working literal; err
\* is the error the loop returned with, if it did.
InitAcc(result) ==
    [result |-> result, index |-> None, types |-> {}, language |-> None,
     direction |-> None, err |-> None]

Abort(acc, code) == [acc EXCEPT !.err = Some(code)]

\* FoldLanguage storing "@none" like any other tag.
FoldLanguage_storeNone(acc, value) ==
    IF as_str(value).some
    THEN [acc EXCEPT !.language = Some(as_str(value).val)]
    ELSE Abort(acc, "InvalidLanguageTaggedString")

\* @language arm (lines 60-75)
FoldLanguage(acc, value) ==
    IF as_str(value).some
    THEN IF as_str(value).val # "@none"
         THEN [acc EXCEPT !.language = Some(as_str(value).val)]
         ELSE acc
    ELSE Abort(acc, "InvalidLanguageTaggedString")

\* FoldDirection checking the exclusion with the types while folding.
FoldDirection_shortCircuit(acc, value) ==
    IF as_str(value).some
    THEN IF DirectionTryFrom(as_str(value).val).ok
         THEN IF acc.types # {}
              THEN Abort(acc, "InvalidValueObject")
              ELSE [acc EXCEPT !.direction = Some(DirectionTryFrom(as_str(value).val).val)]
         ELSE Abort(acc, "InvalidBaseDirection")
    ELSE Abort(acc, "InvalidBaseDirection")

\* @direction arm (lines 77-93)
FoldDirection(acc, value) ==
    IF as_str(value).some
    THEN IF DirectionTryFrom(as_str(value).val).ok
         THEN [acc EXCEPT !.direction = Some(DirectionTryFrom(as_str(value).val).val)]
         ELSE Abort(acc, "InvalidBaseDirection")
    ELSE Abort(acc, "InvalidBaseDirection")

\* @index arm (lines 95-103)
FoldIndex(acc, value) ==
    IF as_str(value).some
    THEN [acc EXCEPT !.index = Some(as_str(value).val)]
    ELSE Abort(acc, "InvalidIndexValue")

\* One iteration of the loop over the @type values (lines 114-130).
FoldTy(ctx, value_entry, acc, ty) ==
    IF as_str(ty).some
    THEN LET expanded_ty == expand_iri(ctx, as_str(ty).val) IN
         CASE expanded_ty = LenientOk(Keyword("@json")) ->
                [acc EXCEPT !.result = LitJson(value_entry)]
           [] expanded_ty.lenient = "Ok" /\ expanded_ty.term.term = "Ref"
              /\ expanded_ty.term.ref = "Id" ->
                [acc EXCEPT !.types = @ \cup {expanded_ty.term.id}]
           [] OTHER -> Abort(acc, "InvalidTypedValue")
    ELSE Abort(acc, "InvalidTypeValue")

\* @type arm (lines 105-132): the loop over as_array(value), left at the
\* first error.
RECURSIVE FoldTypes(_, _, _, _)
FoldTypes(ctx, value_entry, acc, tys) ==
    IF tys = <<>> \/ acc.err.some THEN acc
    ELSE FoldTypes(ctx, value_entry, FoldTy(ctx, value_entry, acc, Head(tys)), Tail(tys))

\* FoldEntry skipping the keys it does not recognise.
FoldEntry_ignoreUnknown(ctx, value_entry, acc, e) ==
    CASE e.key = Keyword("@language") -> FoldLanguage(acc, e.value)
      [] e.key = Keyword("@direction") -> FoldDirection(acc, e.value)
      [] e.key = Keyword("@index") -> FoldIndex(acc, e.value)
      [] e.key = Keyword("@type") -> FoldTypes(ctx, value_entry, acc, as_array(e.value))
      [] OTHER -> acc

\* The match on the expanded key (lines 58-137).
FoldEntry(ctx, value_entry, acc, e) ==
    CASE e.key = Keyword("@language") -> FoldLanguage(acc, e.value)
      [] e.key = Keyword("@direction") -> FoldDirection(acc, e.value)
      [] e.key = Keyword("@index") -> FoldIndex(acc, e.value)
      [] e.key = Keyword("@type") -> FoldTypes(ctx, value_entry, acc, as_array(e.value))
      [] e.key = Keyword("@value") -> acc
      [] OTHER -> Abort(acc, "InvalidValueObject")

\* The loop over expanded_entries (lines 57-138), left at the first error.
RECURSIVE FoldEntries(_, _, _, _)
FoldEntries(ctx, value_entry, acc, entries) ==
    IF entries = <<>> \/ acc.err.some THEN acc
    ELSE FoldEntries(ctx, value_entry, FoldEntry(ctx, value_entry, acc, Head(entries)),
                     Tail(entries))

\* is_empty that drops nothing.
is_empty_never(result) == FALSE

\* is_empty (lines 146-150)
is_empty(result) == result.lit = "Null"

\* FinishLang without the check of the types.
FinishLang_noTypes(acc) ==
    IF acc.result.lit = "String"
    THEN Ok(Some(Indexed(ValueLangString(acc.result.s, acc.language, acc.direction),
                         acc.index)))
    ELSE Err("InvalidLanguageTaggedValue")

\* FinishLang reporting a literal that is not a string as an invalid value object.
FinishLang_wrongCode(acc) ==
    IF acc.types # {}
    THEN Err("InvalidValueObject")
    ELSE IF acc.result.lit = "String"
         THEN Ok(Some(Indexed(ValueLangString(acc.result.s, acc.language, acc.direction),
                              acc.index)))
         ELSE Err("InvalidValueObject")

\* Lines 160-172: language or direction is set.
FinishLang(acc) ==
    IF acc.types # {}
    THEN Err("InvalidValueObject")
    ELSE IF acc.result.lit = "String"
         THEN Ok(Some(Indexed(ValueLangString(acc.result.s, acc.language, acc.direction),
                              acc.index)))
         ELSE Err("InvalidLanguageTaggedValue")

\* Finish looking at the language only, not at the direction.
Finish_langOnly(acc) ==
    IF is_empty(acc.result) THEN Ok(None)
    ELSE IF acc.language.some
         THEN FinishLang(acc)
         ELSE Ok(Some(Indexed(ValueLiteral(acc.result, acc.types), acc.index)))

\* Lines 146-179: what is returned once the loop has completed.
Finish(acc) ==
    IF is_empty(acc.result) THEN Ok(None)
    ELSE IF acc.language.some \/ acc.direction.some
         THEN FinishLang(acc)
         ELSE Ok(Some(Indexed(ValueLiteral(acc.result, acc.types), acc.index)))

\* The accumulators when expand_value returns (None when Step 1 failed).
Accumulate(input_type, ctx, entries, value_entry) ==
    IF Seed(input_type, value_entry).ok
    THEN Some(FoldEntries(ctx, value_entry, InitAcc(Seed(input_type, value_entry).val), entries))
    ELSE None

\* What expand_value returns with the accumulators a: the error of Step 1,
\* the error the loop was left with, or the result of lines 146-179.
Outcome(input_type, value_entry, a) ==
    IF ~a.some THEN Err(Seed(input_type, value_entry).err)
    ELSE IF a.val.err.some THEN Err(a.val.err.val)
    ELSE Finish(a.val)

\* expand_value (lines 23-180)
expand_value(input_type, ctx, entries, value_entry) ==
    Outcome(input_type, value_entry, Accumulate(input_type, ctx, entries, value_entry))

---------------------------------------------------------------------------
\* The arguments a call is made with.
InputTypes ==
    {None, Some(LenientOk(Keyword("@json"))), Some(LenientOk(RefId("http://ex/Int")))}

RawValues ==
    {JNull, JStr("hello"), JNum(42), JBool(TRUE), JObj("a:1"), JArr(<<JNum(1)>>)}

Entries ==
    { [key |-> Keyword("@language"), value |-> v] : v \in {JStr("en"), JStr("@none"), JNum(5)} }
    \cup { [key |-> Keyword("@direction"), value |-> v] : v \in {JStr("ltr"), JStr("rtl"), JStr("up")} }
    \cup { [key |-> Keyword("@index"), value |-> v] : v \in {JStr("i1"), JNum(5)} }
    \cup { [key |-> Keyword("@type"), value |-> v] :
             v \in {JStr("Int"), JStr("@json"), JStr("_:b"), JArr(<<JStr("Str"), JNum(5)>>)} }
    \cup { [key |-> Keyword("@value"), value |-> JStr("hello")],
           [key |-> Keyword("@frobnicate"), value |-> JBool(TRUE)] }

EntrySeqs == UNION { [1..n -> Entries] : n \in 0..MaxEntries }

---------------------------------------------------------------------------
VARIABLES pc, input_type, type_scoped_context, expanded_entries, value_entry, acc, ret

vars == <<pc, input_type, type_scoped_context, expanded_entries, value_entry, acc, ret>>

Init ==
    /\ pc = "call"
    /\ input_type \in InputTypes
    /\ type_scoped_context \in Contexts
    /\ expanded_entries \in EntrySeqs
    /\ value_entry \in RawValues
    /\ acc = None
    /\ ret = None

\* One call of expand_value on the arguments.
Call ==
    /\ pc = "call"
    /\ pc' = "done"
    /\ acc' = Accumulate(input_type, type_scoped_context, expanded_entries, value_entry)
    /\ ret' = Some(Outcome(input_type, value_entry, acc'))
    /\ UNCHANGED <<input_type, type_scoped_context, expanded_entries, value_entry>>

Next == Call

Spec == Init /\ [][Next]_vars
---------------------------------------------------------------------------
\* Vocabulary of the properties.

Json == Some(LenientOk(Keyword("@json")))

\* The call has returned.
Returned == pc = "done"

\* Step 1 succeeded and the loop over expanded_entries ran to its end.
FoldCompleted == Returned /\ acc.some /\ ~acc.val.err.some

\* language or direction is set when the loop ends.
LangOrDirSet == acc.val.language.some \/ acc.val.direction.some

\* The strings among the values of the @type entries.
TypeStrings(entries) ==
    UNION { { as_array(entries[i].value)[j].s :
                j \in { k \in 1..Len(as_array(entries[i].value)) :
                          as_array(entries[i].value)[k].t = "string" } } :
            i \in { n \in 1..Len(entries) : entries[n].key = Keyword("@type") } }

\* Some @type value IRI-expands to the keyword @json.
HasJsonType(ctx, entries) ==
    \E ty \in TypeStrings(entries) : expand_iri(ctx, ty) = LenientOk(Keyword("@json"))

\* The IRI references the @type values expand to.
TypeRefs(ctx, entries) ==
    { expand_iri(ctx, ty).term.id :
        ty \in { t \in TypeStrings(entries) :
                   /\ expand_iri(ctx, t).lenient = "Ok"
                   /\ expand_iri(ctx, t).term.term = "Ref"
                   /\ expand_iri(ctx, t).term.ref = "Id" } }

HasKey(entries, k) == \E i \in 1..Len(entries) : entries[i].key = Keyword(k)

---------------------------------------------------------------------------
\* C1 as stated: a null payload without the @json input type, and a loop
\* that completes, give Ok(None) whatever the entries are.
C1_Original ==
    (FoldCompleted /\ value_entry = JNull /\ input_type # Json)
        => ret.val = Ok(None)

\* C1: when the payload is null, the input type is not @json, no entry fails
\* and no @type value expands to @json, the result is Ok(None), whatever
\* @index, @type, @language and @direction entries are present.
C1_NullDropped ==
    (/\ FoldCompleted /\ value_entry = JNull /\ input_type # Json
     /\ ~HasJsonType(type_scoped_context, expanded_entries))
        => ret.val = Ok(None)

C1_Witness ==
    /\ FoldCompleted /\ value_entry = JNull /\ input_type = None
    /\ HasKey(expanded_entries, "@index") /\ HasKey(expanded_entries, "@type")
    /\ HasKey(expanded_entries, "@language")
    /\ ~HasJsonType(type_scoped_context, expanded_entries)
    /\ ret.val = Ok(None)

\* C2 as stated: language or direction set with a non-empty types set gives
\* Err(InvalidValueObject) for every working literal, Null included.
C2_Original ==
    (FoldCompleted /\ LangOrDirSet /\ acc.val.types # {})
        => ret.val = Err("InvalidValueObject")

\* C2: when the loop completes with language or direction set, a non-empty
\* types set and a working literal other than Null, the result is
\* Err(InvalidValueObject).
C2_TypeLangExclusive ==
    (FoldCompleted /\ LangOrDirSet /\ acc.val.types # {} /\ acc.val.result.lit # "Null")
        => ret.val = Err("InvalidValueObject")

C2_Witness ==
    /\ FoldCompleted /\ acc.val.direction.some /\ acc.val.types # {}
    /\ acc.val.result.lit = "Json"
    /\ ret.val = Err("InvalidValueObject")

\* C3 as stated: language or direction set with a working literal that is
\* not a string gives Err(InvalidLanguageTaggedValue).
C3_Original ==
    (FoldCompleted /\ LangOrDirSet /\ acc.val.result.lit # "String")
        => ret.val = Err("InvalidLanguageTaggedValue")

\* C3: when the loop completes with language or direction set, an empty
\* types set and a working literal that is Number, Boolean or Json, the
\* result is Err(InvalidLanguageTaggedValue).
C3_NonStringLang ==
    (/\ FoldCompleted /\ LangOrDirSet /\ acc.val.types = {}
     /\ acc.val.result.lit \in {"Number", "Boolean", "Json"})
        => ret.val = Err("InvalidLanguageTaggedValue")

C3_Witness ==
    /\ FoldCompleted /\ acc.val.language.some /\ acc.val.types = {}
    /\ acc.val.result.lit = "Number"
    /\ ret.val = Err("InvalidLanguageTaggedValue")

---------------------------------------------------------------------------
\* What the loop accumulates from the entries alone, whatever Step 1 did.
EntriesFold ==
    FoldEntries(type_scoped_context, value_entry, InitAcc(LitJson(value_entry)),
                expanded_entries)

\* C4: when an @type value expands to @json, no entry fails and neither
\* language nor direction is set, the payload is taken as a JSON literal
\* whatever its shape and whatever the input type: the result is
\* Ok(Some(Indexed(Literal(Json(raw_value), types), index))).
C4_JsonTypeAccepted ==
    (/\ Returned /\ HasJsonType(type_scoped_context, expanded_entries)
     /\ ~EntriesFold.err.some
     /\ ~EntriesFold.language.some /\ ~EntriesFold.direction.some)
        => ret.val = Ok(Some(Indexed(
                        ValueLiteral(LitJson(value_entry),
                                     TypeRefs(type_scoped_context, expanded_entries)),
                        EntriesFold.index)))

\* C5 as stated: a string payload with the single entry @language "@none"
\* gives the language-tagged string without language and direction.
C5_Original ==
    (/\ Returned /\ value_entry.t = "string" /\ input_type # Json
     /\ expanded_entries = <<[key |-> Keyword("@language"), value |-> JStr("@none")]>>)
        => ret.val = Ok(Some(Indexed(ValueLangString(value_entry.s, None, None), None)))

\* C5: a string payload s with the single entry @language "@none" (and an
\* input type other than @json) gives the plain literal
\* Ok(Some(Indexed(Literal(String(s), {}), None))).
C5_NoneLanguagePlain ==
    (/\ Returned /\ value_entry.t = "string" /\ input_type # Json
     /\ expanded_entries = <<[key |-> Keyword("@language"), value |-> JStr("@none")]>>)
        => ret.val = Ok(Some(Indexed(ValueLiteral(LitString(value_entry.s), {}), None)))

C5_Witness ==
    /\ Returned /\ value_entry = JStr("hello") /\ input_type = None
    /\ expanded_entries = <<[key |-> Keyword("@language"), value |-> JStr("@none")]>>
    /\ ret.val.ok /\ ret.val.val.some
    /\ ret.val.val.val.object.value = "Literal"

\* The call returned Ok(Some(..)).
Produced == Returned /\ ret.val.ok /\ ret.val.val.some

\* C6: an Ok(Some(..)) result is either a LangString, built from a String
\* literal with an empty types set, or a Literal, with neither language nor
\* direction accumulated and whose types are IRI references that @type
\* values expand to.
C6_MutualExclusion ==
    Produced =>
        LET object == ret.val.val.val.object IN
        /\ object.value = "LangString" =>
              /\ acc.val.result.lit = "String"
              /\ acc.val.types = {}
        /\ object.value = "Literal" =>
              /\ ~acc.val.language.some
              /\ ~acc.val.direction.some
              /\ object.types = acc.val.types
              /\ object.types \subseteq TypeRefs(type_scoped_context, expanded_entries)
              /\ (~HasKey(expanded_entries, "@type") => object.types = {})

C6_Witness ==
    /\ Produced
    /\ ret.val.val.val.object.value = "Literal"
    /\ ret.val.val.val.object.types # {}
    /\ HasKey(expanded_entries, "@index")

---------------------------------------------------------------------------
\* The rule an entry violates, if any: non-string @language, @direction
\* other than "ltr"/"rtl", non-string @index, for @type the first value that
\* is not a string or expands to neither an IRI reference nor @json, and any
\* key outside the five keywords.
ViolationOf(ctx, e) ==
    CASE e.key = Keyword("@language") ->
            IF e.value.t # "string" THEN Some("InvalidLanguageTaggedString") ELSE None
      [] e.key = Keyword("@direction") ->
            IF e.value \notin {JStr("ltr"), JStr("rtl")}
            THEN Some("InvalidBaseDirection") ELSE None
      [] e.key = Keyword("@index") ->
            IF e.value.t # "string" THEN Some("InvalidIndexValue") ELSE None
      [] e.key = Keyword("@type") ->
            LET tys == as_array(e.value)
                bad == { k \in 1..Len(tys) :
                           \/ tys[k].t # "string"
                           \/ /\ expand_iri(ctx, tys[k].s) # LenientOk(Keyword("@json"))
                              /\ ~(/\ expand_iri(ctx, tys[k].s).lenient = "Ok"
                                   /\ expand_iri(ctx, tys[k].s).term.term = "Ref"
                                   /\ expand_iri(ctx, tys[k].s).term.ref = "Id") }
            IN  IF bad = {} THEN None
                ELSE LET k == CHOOSE m \in bad : \A n \in bad : m <= n
                     IN  IF tys[k].t # "string" THEN Some("InvalidTypeValue")
                         ELSE Some("InvalidTypedValue")
      [] e.key = Keyword("@value") -> None
      [] OTHER -> Some("InvalidValueObject")

Violating(ctx, entries) == { i \in 1..Len(entries) : ViolationOf(ctx, entries[i]).some }

DistinctKeys(entries) ==
    \A i, j \in 1..Len(entries) : i # j => entries[i].key # entries[j].key

\* The orders the entries can be handed over in.
Reorderings(entries) ==
    { [i \in 1..Len(entries) |-> entries[p[i]]] : p \in Permutations(1..Len(entries)) }

\* C7 as stated: with pairwise distinct keys every order of the entries
\* gives the same result, the same Ok value or the same error kind.
C7_Original ==
    (Returned /\ DistinctKeys(expanded_entries)) =>
        \A es \in Reorderings(expanded_entries) :
            expand_value(input_type, type_scoped_context, es, value_entry) = ret.val

\* C7: with pairwise distinct keys, every order of the entries gives an Ok
\* result exactly when this one does, and the same result (the same Ok value
\* or the same error kind) when at most one entry violates its rule.
C7_OrderIndependent ==
    (Returned /\ DistinctKeys(expanded_entries)) =>
        \A es \in Reorderings(expanded_entries) :
            LET other == expand_value(input_type, type_scoped_context, es, value_entry) IN
            /\ other.ok = ret.val.ok
            /\ Cardinality(Violating(type_scoped_context, expanded_entries)) <= 1
                  => other = ret.val

C7_Witness ==
    /\ Returned /\ DistinctKeys(expanded_entries) /\ Len(expanded_entries) = 3
    /\ HasKey(expanded_entries, "@type") /\ HasKey(expanded_entries, "@direction")
    /\ expanded_entries[1].key = Keyword("@type")
    /\ ret.val = Err("InvalidValueObject")
    /\ \A es \in Reorderings(expanded_entries) :
          expand_value(input_type, type_scoped_context, es, value_entry) = ret.val

\* The last entry with the key k.
LastWith(entries, k) ==
    entries[CHOOSE i \in 1..Len(entries) :
               /\ entries[i].key = Keyword(k)
               /\ \A j \in 1..Len(entries) : entries[j].key = Keyword(k) => j <= i]

\* C8: after a loop that completes, language, direction and index are what
\* the last entry of that key alone determines: a later entry overwrites an
\* earlier one, and a later @language "@none" resets language to absent.
C8_LastWriteWins ==
    FoldCompleted =>
        /\ acc.val.language =
              IF ~HasKey(expanded_entries, "@language") THEN None
              ELSE IF LastWith(expanded_entries, "@language").value = JStr("@none") THEN None
              ELSE Some(LastWith(expanded_entries, "@language").value.s)
        /\ acc.val.direction =
              IF ~HasKey(expanded_entries, "@direction") THEN None
              ELSE IF LastWith(expanded_entries, "@direction").value = JStr("ltr")
                   THEN Some("Ltr") ELSE Some("Rtl")
        /\ acc.val.index =
              IF ~HasKey(expanded_entries, "@index") THEN None
              ELSE Some(LastWith(expanded_entries, "@index").value.s)

\* C9: when Step 1 succeeds and some entry violates its rule, the call
\* returns the error of the earliest violating entry, also when the working
\* literal is Null.
C9_FailFast ==
    (Returned /\ acc.some /\ Violating(type_scoped_context, expanded_entries) # {}) =>
        LET first == CHOOSE i \in Violating(type_scoped_context, expanded_entries) :
                        \A j \in Violating(type_scoped_context, expanded_entries) : i <= j
        IN  ret.val = Err(ViolationOf(type_scoped_context, expanded_entries[first]).val)

C9_Witness ==
    /\ Returned /\ acc.some /\ value_entry = JNull
    /\ Cardinality(Violating(type_scoped_context, expanded_entries)) >= 2
    /\ ~ViolationOf(type_scoped_context, expanded_entries[1]).some
    /\ ViolationOf(type_scoped_context, expanded_entries[2]) = Some("InvalidTypeValue")
    /\ ViolationOf(type_scoped_context, expanded_entries[3]) = Some("InvalidValueObject")
    /\ ret.val = Err("InvalidTypeValue")

\* C10: with the input type @json the call never returns Ok(None) nor
\* Err(InvalidValueObjectValue); the working literal is Json(raw_value) for
\* every payload, and when the loop completes with neither language nor
\* direction set the result is Ok(Some(Indexed(Literal(Json(raw_value),
\* types), index))), for a null payload too.
C10_JsonHint ==
    (Returned /\ input_type = Json) =>
        /\ ret.val # Ok(None)
        /\ ret.val # Err("InvalidValueObjectValue")
        /\ acc.some /\ acc.val.result = LitJson(value_entry)
        /\ (~acc.val.err.some /\ ~LangOrDirSet) =>
              ret.val = Ok(Some(Indexed(ValueLiteral(LitJson(value_entry), acc.val.types),
                                        acc.val.index)))

C10_Witness ==
    /\ Returned /\ input_type = Json /\ value_entry = JNull
    /\ HasKey(expanded_entries, "@index") /\ HasKey(expanded_entries, "@type")
    /\ ret.val = Ok(Some(Indexed(ValueLiteral(LitJson(JNull), acc.val.types), acc.val.index)))
====
